---- MODULE Spec2Model ----
(***************************************************************************)
(* Model of the useWaterfall composable (vue-waterfall): the column        *)
(* resolver, the shortest-column position packer, the measured-height      *)
(* cache and the handlers that trigger a recomputation.                    *)
(*                                                                         *)
(* JavaScript numbers are modelled as exact rationals [n, d] in lowest     *)
(* terms with d > 0 (IEEE-754 rounding is not modelled).  The non-finite   *)
(* values the code can produce keep d <= 0: NaN, Infinity and the value    *)
(* undefined read from a missing array element.                            *)
(***************************************************************************)
EXTENDS Integers, Sequences, FiniteSets, TLC

VARIABLES
    opts,            \* options fixed at construction: getItemKey, getItemSize
    items,           \* items.value: the item list (items are their ids)
    columns,         \* columns.value: undefined | number | breakpoint table
    columnWidth,     \* columnWidth.value
    gap,             \* gap.value
    containerWidth,  \* containerWidth.value
    itemHeights,     \* itemHeights.value: Map in insertion order, <<key, height>>
    positions,       \* positions.value
    isClient,        \* isClient.value (TRUE once mounted)
    pending,         \* watcher jobs queued in the scheduler, not yet run
    recalcs,         \* history: packer runs made by the last handler
    lastCall         \* history: <<key, height>> of the last handler when it
                     \* was updateItemHeight, else <<>>

vars == <<opts, items, columns, columnWidth, gap, containerWidth, itemHeights,
          positions, isClient, pending, recalcs, lastCall>>

-----------------------------------------------------------------------------
(* Bounds of the model *)

\* Most entries the measured-height cache takes in a behaviour.
MaxCache == 2

\* The items the caller supplies, by id; the item list holds each at most once.
ItemIds == {1, 2, 3}
\* Heights the item observers report.
Heights == {100, 300}
\* Container widths and configurations of the layout specification.
LayoutWidths == {500, 800}
LayoutGaps == {0, 16}
AutoColumns == [kind |-> "undefined"]
FixedColumns(c) == [kind |-> "number", value |-> c]
BreakpointTable(t) == [kind |-> "object", table |-> t]
LayoutColumns ==
    { AutoColumns,
      FixedColumns(2),
      BreakpointTable([name \in {"default", "md"} |->
                          IF name = "default" THEN -1 ELSE 0]) }

-----------------------------------------------------------------------------
(* Numbers *)

NaN == [n |-> 0, d |-> 0]
Infinity == [n |-> 1, d |-> 0]
NegInfinity == [n |-> -1, d |-> 0]
undefined == [n |-> 0, d |-> -1]

IsFinite(a) == a.d > 0

Abs(i) == IF i < 0 THEN -i ELSE i

RECURSIVE GCD(_, _)
GCD(a, b) == IF b = 0 THEN a ELSE GCD(b, a % b)

\* The rational n/d (d # 0) in lowest terms with a positive denominator.
Rat(n, d) ==
    LET g == GCD(Abs(n), Abs(d))
        s == IF d < 0 THEN -1 ELSE 1
    IN  [n |-> s * (n \div g), d |-> s * (d \div g)]

Num(i) == [n |-> i, d |-> 1]

\* a + b; undefined and NaN operands give NaN.
Plus(a, b) ==
    IF ~IsFinite(a) \/ ~IsFinite(b) THEN NaN
    ELSE Rat(a.n * b.d + b.n * a.d, a.d * b.d)

Minus(a, b) ==
    IF ~IsFinite(a) \/ ~IsFinite(b) THEN NaN
    ELSE Rat(a.n * b.d - b.n * a.d, a.d * b.d)

Times(a, b) ==
    IF ~IsFinite(a) \/ ~IsFinite(b) THEN NaN
    ELSE Rat(a.n * b.n, a.d * b.d)

\* a / b for finite a, b; division by zero gives +-Infinity or NaN.
Over(a, b) ==
    IF ~IsFinite(a) \/ ~IsFinite(b) THEN NaN
    ELSE IF b.n = 0
         THEN (IF a.n > 0 THEN Infinity ELSE IF a.n < 0 THEN NegInfinity ELSE NaN)
         ELSE Rat(a.n * b.d, a.d * b.n)

\* a < b on finite numbers.
Less(a, b) == a.n * b.d < b.n * a.d

\* Math.floor of a finite number.
MathFloor(a) == a.n \div a.d

\* Math.max(1, c) on integers.
MathMax1(c) == IF c > 1 THEN c ELSE 1

-----------------------------------------------------------------------------
(* Column resolver *)

BREAKPOINTS ==
    [name \in {"sm", "md", "lg", "xl", "2xl"} |->
        CASE name = "sm" -> 640
          [] name = "md" -> 768
          [] name = "lg" -> 1024
          [] name = "xl" -> 1280
          [] name = "2xl" -> 1536]

\* One `if (width >= BREAKPOINTS.x && breakpoints.x !== undefined)` step.
BreakpointStep(breakpoints, width, name, result) ==
    IF width >= BREAKPOINTS[name] /\ name \in DOMAIN breakpoints
    THEN breakpoints[name]
    ELSE result

\* A getBreakpointColumns where the first threshold reached wins.
getBreakpointColumnsFirstMatch(breakpoints, width) ==
    LET reached == { name \in DOMAIN BREAKPOINTS :
                       width >= BREAKPOINTS[name] /\ name \in DOMAIN breakpoints }
    IN  IF reached # {}
        THEN breakpoints[CHOOSE name \in reached :
                \A other \in reached : BREAKPOINTS[name] <= BREAKPOINTS[other]]
        ELSE IF "default" \in DOMAIN breakpoints THEN breakpoints["default"] ELSE 2

getBreakpointColumns(breakpoints, width) ==
    LET r0 == IF "default" \in DOMAIN breakpoints THEN breakpoints["default"] ELSE 2
        r1 == BreakpointStep(breakpoints, width, "sm", r0)
        r2 == BreakpointStep(breakpoints, width, "md", r1)
        r3 == BreakpointStep(breakpoints, width, "lg", r2)
        r4 == BreakpointStep(breakpoints, width, "xl", r3)
        r5 == BreakpointStep(breakpoints, width, "2xl", r4)
    IN  r5

\* The reactive refs the computations read, as one record.
Refs ==
    [opts |-> opts, items |-> items, columns |-> columns,
     columnWidth |-> columnWidth, gap |-> gap,
     containerWidth |-> containerWidth, itemHeights |-> itemHeights]

\* A columnCount without the guard for an unmeasured container.
columnCountUnguarded(r) ==
    LET cols == r.columns
        width == r.containerWidth
    IN  IF cols.kind = "number" THEN MathMax1(cols.value)
        ELSE IF cols.kind = "object" THEN getBreakpointColumns(cols.table, width)
        ELSE MathMax1(MathFloor(Over(Num(width + r.gap),
                                     Num(r.columnWidth + r.gap))))

\* A columnCount whose auto mode leaves the trailing gap out of the width.
columnCountTrailingGap(r) ==
    LET cols == r.columns
        width == r.containerWidth
    IN  IF width = 0 THEN 1
        ELSE IF cols.kind = "number" THEN MathMax1(cols.value)
        ELSE IF cols.kind = "object" THEN getBreakpointColumns(cols.table, width)
        ELSE MathMax1(MathFloor(Over(Num(width), Num(r.columnWidth + r.gap))))

\* The computed columnCount on the refs r (an integer for the configurations
\* of the model, where colWidth + gapValue is never 0).
columnCount(r) ==
    LET cols == r.columns
        width == r.containerWidth
    IN  IF width = 0 THEN 1
        ELSE IF cols.kind = "number" THEN MathMax1(cols.value)
        ELSE IF cols.kind = "object" THEN getBreakpointColumns(cols.table, width)
        ELSE LET colWidth == r.columnWidth
                 gapValue == r.gap
                 count == MathFloor(Over(Num(width + gapValue),
                                         Num(colWidth + gapValue)))
             IN  MathMax1(count)

\* The computed actualColumnWidth on the refs r, a number.
actualColumnWidth(r) ==
    LET count == columnCount(r)
        gapValue == r.gap
        width == r.containerWidth
    IN  IF width = 0 THEN Num(r.columnWidth)
        ELSE Over(Num(width - (count - 1) * gapValue), Num(count))

-----------------------------------------------------------------------------
(* Measured-height cache: a JavaScript Map, entries in insertion order *)

MapHas(m, key) == \E j \in 1..Len(m) : m[j][1] = key

\* A Map.get that reads the oldest entry whatever the key.
MapGetOldest(m, key) == m[1][2]

\* Map.get for a key the map holds.
MapGet(m, key) == m[CHOOSE j \in 1..Len(m) : m[j][1] = key][2]

\* Map.set: an existing key keeps its place, a new key is appended.
MapSet(m, key, value) ==
    IF MapHas(m, key)
    THEN [j \in 1..Len(m) |-> IF m[j][1] = key THEN <<key, value>> ELSE m[j]]
    ELSE Append(m, <<key, value>>)

-----------------------------------------------------------------------------
(* Options *)

ssrPlaceholderHeight == 200

\* A key extractor that always returns the index, as before release 0.2.0.
getItemKeyIndex(r, item, index) == index

\* getItemKey(item, index): the default extractor returns the index, the
\* caller's extractor of the model returns the item's id.
getItemKey(r, item, index) ==
    IF r.opts.getItemKey = "default" THEN index ELSE item

\* The caller's size estimator of the model: <<>> is null, else <<size>>.
\* It covers a usable size, null, a zero width and a negative height.
getItemSize(item, index) ==
    CASE item % 4 = 1 -> << [width |-> 100, height |-> 300] >>
      [] item % 4 = 2 -> << >>
      [] item % 4 = 3 -> IF index = 0
                         THEN << [width |-> 0, height |-> 50] >>
                         ELSE << [width |-> 200, height |-> -100] >>
      [] OTHER -> << [width |-> 50, height |-> 0] >>

-----------------------------------------------------------------------------
(* Position packer *)

\* Array.from({ length: count }, () => 0) as a function on 0..length-1;
\* a non-positive length gives the empty array.
NewColumnHeights(count) == [c \in 0..(count - 1) |-> Num(0)]

ArrayLength(count) == IF count > 0 THEN count ELSE 0

\* array[i]: undefined when the array has no such property.
ArrayGet(a, i) == IF i \in DOMAIN a THEN a[i] ELSE undefined

\* array[i] = v: also creates the property (index -1 is no element).
ArraySet(a, i, v) == [c \in DOMAIN a \cup {i} |-> IF c = i THEN v ELSE a[c]]

\* Math.min(...array) over the elements 0..length-1; Infinity when empty.
MathMin(a, length) ==
    IF length = 0 THEN Infinity
    ELSE a[CHOOSE c \in 0..(length - 1) :
              \A e \in 0..(length - 1) : ~Less(a[e], a[c])]

\* array.indexOf(v): the first element equal to v, or -1.
IndexOf(a, length, v) ==
    IF \E c \in 0..(length - 1) : a[c] = v
    THEN CHOOSE c \in 0..(length - 1) :
            a[c] = v /\ \A e \in 0..(c - 1) : a[e] # v
    ELSE -1

\* An ItemHeight that uses every non-null estimate, also a malformed one.
ItemHeightAnySize(r, i, colWidth) ==
    LET item == r.items[i + 1]
        itemKey == getItemKey(r, item, i)
    IN  IF MapHas(r.itemHeights, itemKey)
        THEN Num(MapGet(r.itemHeights, itemKey))
        ELSE IF r.opts.getItemSize = "given"
             THEN LET size == getItemSize(item, i)
                  IN  IF size # <<>>
                      THEN Times(Over(Num(size[1].height), Num(size[1].width)),
                                 colWidth)
                      ELSE Num(ssrPlaceholderHeight)
             ELSE Num(ssrPlaceholderHeight)

\* Height of the item at index i (0-based): measured > estimate > placeholder.
ItemHeight(r, i, colWidth) ==
    LET item == r.items[i + 1]
        itemKey == getItemKey(r, item, i)
    IN  IF MapHas(r.itemHeights, itemKey)
        THEN Num(MapGet(r.itemHeights, itemKey))
        ELSE IF r.opts.getItemSize = "given"
             THEN LET size == getItemSize(item, i)
                  IN  IF size # <<>> /\ size[1].width > 0 /\ size[1].height > 0
                      THEN Times(Over(Num(size[1].height), Num(size[1].width)),
                                 colWidth)
                      ELSE Num(ssrPlaceholderHeight)
             ELSE Num(ssrPlaceholderHeight)

\* A PlaceItem that puts the new position in front of the result.
PlaceItemUnshift(st, r, i, count, colWidth, gapValue) ==
    LET itemHeight == ItemHeight(r, i, colWidth)
        length == ArrayLength(count)
        shortestColumn ==
            IndexOf(st.columnHeights, length, MathMin(st.columnHeights, length))
        x == Times(Num(shortestColumn), Plus(colWidth, Num(gapValue)))
        y == ArrayGet(st.columnHeights, shortestColumn)
    IN  [ columnHeights |->
              ArraySet(st.columnHeights, shortestColumn,
                       Plus(Plus(y, itemHeight), Num(gapValue))),
          result |->
              << [x |-> x, y |-> y, width |-> colWidth,
                  height |-> itemHeight, column |-> shortestColumn] >>
              \o st.result ]

\* One iteration of the placement loop for index i on the loop state st.
PlaceItem(st, r, i, count, colWidth, gapValue) ==
    LET itemHeight == ItemHeight(r, i, colWidth)
        length == ArrayLength(count)
        shortestColumn ==
            IndexOf(st.columnHeights, length, MathMin(st.columnHeights, length))
        x == Times(Num(shortestColumn), Plus(colWidth, Num(gapValue)))
        y == ArrayGet(st.columnHeights, shortestColumn)
    IN  [ columnHeights |->
              ArraySet(st.columnHeights, shortestColumn,
                       Plus(Plus(y, itemHeight), Num(gapValue))),
          result |->
              Append(st.result,
                     [x |-> x, y |-> y, width |-> colWidth,
                      height |-> itemHeight, column |-> shortestColumn]) ]

\* The loop `for (let i = 0; i < itemList.length; i++)` from index i on the
\* loop state st.  (The set binds the next loop state to its value, so that
\* it is computed once.)
RECURSIVE PlaceFrom(_, _, _, _, _, _)
PlaceFrom(st, r, i, count, colWidth, gapValue) ==
    IF i >= Len(r.items) THEN st.result
    ELSE CHOOSE res \in
            { PlaceFrom(next, r, i + 1, count, colWidth, gapValue) :
                next \in {PlaceItem(st, r, i, count, colWidth, gapValue)} } :
            TRUE

\* calculatePositions() on the refs r.
calculatePositions(r) ==
    LET count == columnCount(r)
        colWidth == actualColumnWidth(r)
        gapValue == r.gap
        itemList == r.items
    IN  IF count = 0 \/ Len(itemList) = 0 THEN <<>>
        ELSE PlaceFrom([columnHeights |-> NewColumnHeights(count),
                        result |-> <<>>],
                       r, 0, count, colWidth, gapValue)

-----------------------------------------------------------------------------
(* Handlers *)

\* A watcher whose source list leaves the gap out.
WatchedSourcesNoGap(r) == <<r.items, columnCount(r), actualColumnWidth(r)>>

\* The sources of watch([items, columnCount, actualColumnWidth, gap], ...).
WatchedSources(r) == <<r.items, columnCount(r), actualColumnWidth(r), r.gap>>

\* The scheduler queues a watcher's job when one of its sources changed
\* (flush: 'pre', the default: the job runs after the handler returns, before
\* the next task; hence every handler below starts with no job pending).
\* Stated after the primed sources of the step.
QueueJobs ==
    pending' = pending
        \cup (IF WatchedSources(Refs') # WatchedSources(Refs) THEN {"sources"} ELSE {})
        \cup (IF containerWidth' # containerWidth THEN {"containerWidth"} ELSE {})

\* recalculate(): positions.value = calculatePositions(), on the state the
\* handler leaves.
recalculate == positions' = calculatePositions(Refs')

\* The lists one edit away from the list l: an item not in l appended or
\* prepended, two neighbours swapped, an item removed.
ItemEdits(l) ==
    LET fresh == ItemIds \ {l[i] : i \in DOMAIN l}
        Without(i) == SubSeq(l, 1, i - 1) \o SubSeq(l, i + 1, Len(l))
        Swapped(i) == [j \in DOMAIN l |->
                          IF j = i THEN l[i + 1] ELSE IF j = i + 1 THEN l[i] ELSE l[j]]
    IN  {Append(l, id) : id \in fresh}
        \cup {<<id>> \o l : id \in fresh}
        \cup {Swapped(i) : i \in 1..(Len(l) - 1)}
        \cup {Without(i) : i \in DOMAIN l}

\* The options of the model: the default key extractor (the index) or the
\* caller's, with or without a size estimator.
Options ==
    { [getItemKey |-> "default", getItemSize |-> "given"],
      [getItemKey |-> "given", getItemSize |-> "none"],
      [getItemKey |-> "given", getItemSize |-> "given"] }

\* useWaterfall(options): the refs' initial values, then the immediate run
\* of the first watcher.
InitWith(options, itemLists, columnsSet, gaps, widths) ==
    /\ opts \in options
    /\ items \in itemLists
    /\ columns \in columnsSet
    /\ columnWidth \in widths
    /\ gap \in gaps
    /\ containerWidth = 0
    /\ itemHeights = <<>>
    /\ isClient = FALSE
    /\ pending = {}
    /\ positions = calculatePositions(Refs)
    /\ recalcs = 1
    /\ lastCall = <<>>

\* onMounted: isClient, setupResizeObserver (initial width = offsetWidth),
\* recalculate().
onMounted(offsetWidth) ==
    /\ ~isClient
    /\ isClient' = TRUE
    /\ containerWidth' = offsetWidth
    /\ UNCHANGED <<opts, items, columns, columnWidth, gap, itemHeights>>
    /\ QueueJobs
    /\ recalculate
    /\ recalcs' = 1
    /\ lastCall' = <<>>

\* The ResizeObserver callback of the container.
resizeObserver(newWidth) ==
    /\ isClient
    /\ pending = {}
    /\ newWidth # containerWidth
    /\ containerWidth' = newWidth
    /\ UNCHANGED <<opts, items, columns, columnWidth, gap, itemHeights,
                   positions, isClient>>
    /\ QueueJobs
    /\ recalcs' = 0
    /\ lastCall' = <<>>

\* The caller replaces the item list.
setItems(itemList) ==
    /\ isClient
    /\ pending = {}
    /\ itemList # items
    /\ items' = itemList
    /\ UNCHANGED <<opts, columns, columnWidth, gap, containerWidth, itemHeights,
                   positions, isClient>>
    /\ QueueJobs
    /\ recalcs' = 0
    /\ lastCall' = <<>>

\* The caller changes the columns configuration.
setColumns(cols) ==
    /\ isClient
    /\ pending = {}
    /\ cols # columns
    /\ columns' = cols
    /\ UNCHANGED <<opts, items, columnWidth, gap, containerWidth, itemHeights,
                   positions, isClient>>
    /\ QueueJobs
    /\ recalcs' = 0
    /\ lastCall' = <<>>

\* The caller changes the gap.
setGap(g) ==
    /\ isClient
    /\ pending = {}
    /\ g # gap
    /\ gap' = g
    /\ UNCHANGED <<opts, items, columns, columnWidth, containerWidth, itemHeights,
                   positions, isClient>>
    /\ QueueJobs
    /\ recalcs' = 0
    /\ lastCall' = <<>>

\* The caller changes the minimum column width.
setColumnWidth(w) ==
    /\ isClient
    /\ pending = {}
    /\ w # columnWidth
    /\ columnWidth' = w
    /\ UNCHANGED <<opts, items, columns, gap, containerWidth, itemHeights,
                   positions, isClient>>
    /\ QueueJobs
    /\ recalcs' = 0
    /\ lastCall' = <<>>

\* The scheduler runs the queued watcher jobs; each calls recalculate().
flushJobs ==
    /\ pending # {}
    /\ pending' = {}
    /\ UNCHANGED <<opts, items, columns, columnWidth, gap, containerWidth,
                   itemHeights, isClient>>
    /\ recalculate
    /\ recalcs' = Cardinality(pending)
    /\ lastCall' = <<>>

\* An updateItemHeight that stores and recomputes without comparing.
updateItemHeightAlways(keyOrIndex, height) ==
    /\ isClient
    /\ pending = {}
    /\ MapHas(itemHeights, keyOrIndex) \/ Len(itemHeights) < MaxCache
    /\ UNCHANGED <<opts, items, columns, columnWidth, gap, containerWidth,
                   isClient, pending>>
    /\ itemHeights' = MapSet(itemHeights, keyOrIndex, height)
    /\ recalculate
    /\ recalcs' = 1
    /\ lastCall' = <<keyOrIndex, height>>

\* An updateItemHeight that recomputes on a new height without storing it.
updateItemHeightUnstored(keyOrIndex, height) ==
    /\ isClient
    /\ pending = {}
    /\ MapHas(itemHeights, keyOrIndex) \/ Len(itemHeights) < MaxCache
    /\ UNCHANGED <<opts, items, columns, columnWidth, gap, containerWidth,
                   isClient, pending, itemHeights>>
    /\ IF ~MapHas(itemHeights, keyOrIndex)
          \/ MapGet(itemHeights, keyOrIndex) # height
       THEN /\ recalculate
            /\ recalcs' = 1
       ELSE /\ UNCHANGED positions
            /\ recalcs' = 0
    /\ lastCall' = <<keyOrIndex, height>>

\* updateItemHeight(keyOrIndex, height)
updateItemHeight(keyOrIndex, height) ==
    /\ isClient
    /\ pending = {}
    /\ MapHas(itemHeights, keyOrIndex) \/ Len(itemHeights) < MaxCache
    /\ UNCHANGED <<opts, items, columns, columnWidth, gap, containerWidth,
                   isClient, pending>>
    /\ IF ~MapHas(itemHeights, keyOrIndex)
          \/ MapGet(itemHeights, keyOrIndex) # height
       THEN /\ itemHeights' = MapSet(itemHeights, keyOrIndex, height)
            /\ recalculate
            /\ recalcs' = 1
       ELSE /\ UNCHANGED <<itemHeights, positions>>
            /\ recalcs' = 0
    /\ lastCall' = <<keyOrIndex, height>>

\* Keys the item observers report under: the keys of the rendered items.
Keys == { getItemKey(Refs, items[i], i - 1) : i \in DOMAIN items }

\* entry.contentRect.height of the element rendered for the item of key
\* itemKey: the element's actual height, which no layout changes.
contentRectHeight(itemKey) == IF itemKey % 2 = 1 THEN 100 ELSE 300

\* handleItemMounted(item, index, el), called for every item on every render:
\* the ResizeObserver it creates reports the element's height under the
\* item's key.  i is the item's place in the list (index + 1).
itemObserver(i) ==
    LET itemKey == getItemKey(Refs, items[i], i - 1)
    IN  updateItemHeight(itemKey, contentRectHeight(itemKey))

-----------------------------------------------------------------------------
(* Specification of the packer and the cache: every item list, fixed        *)
(* configuration, the container resized                                     *)

\* All lists of distinct items.
ItemLists ==
    { l \in UNION { [1..n -> ItemIds] : n \in 0..Cardinality(ItemIds) } :
        \A i, j \in DOMAIN l : i # j => l[i] # l[j] }

Init == InitWith(Options, ItemLists, LayoutColumns, LayoutGaps, {250})

Next ==
    \/ \E w \in LayoutWidths : onMounted(w)
    \/ \E w \in LayoutWidths : resizeObserver(w)
    \/ flushJobs
    \/ \E k \in Keys, h \in Heights : updateItemHeight(k, h)

Spec == Init /\ [][Next]_vars

-----------------------------------------------------------------------------
(* Specification of the item list: items inserted, reordered and removed    *)
(* under a fixed configuration                                              *)

InitItems == InitWith(Options, {<<>>}, {AutoColumns, FixedColumns(2)}, {16}, {250})

NextItems ==
    \/ \E w \in {600} : onMounted(w)
    \/ \E l \in ItemEdits(items) : setItems(l)
    \/ flushJobs
    \/ \E k \in Keys, h \in Heights : updateItemHeight(k, h)

SpecItems == InitItems /\ [][NextItems]_vars

-----------------------------------------------------------------------------
(* Specification of the column resolver: every configuration changed at     *)
(* run time, two items                                                      *)

ColsWidths == {0, 200, 300, 640, 767, 768, 800, 1000, 1024, 1280, 1535, 1536}
ColsGaps == {-8, 0, 16}
ColsColumnWidths == {100, 250}
Table1(n1, v1) == [name \in {n1} |-> v1]
Table2(n1, v1, n2, v2) == [name \in {n1, n2} |-> IF name = n1 THEN v1 ELSE v2]
ColsColumns ==
    { AutoColumns,
      FixedColumns(-1), FixedColumns(0), FixedColumns(1), FixedColumns(4),
      BreakpointTable(<<>>),
      BreakpointTable(Table1("default", 0)),
      BreakpointTable(Table2("default", 2, "md", 4)),
      BreakpointTable(Table2("default", 1, "sm", -2)),
      BreakpointTable(Table2("lg", 5, "2xl", 7)),
      BreakpointTable([name \in {"default", "sm", "md", "lg", "xl"} |->
          CASE name = "default" -> 2
            [] name = "sm" -> 3
            [] name = "md" -> 4
            [] name = "lg" -> 5
            [] name = "xl" -> 6]) }

InitCols ==
    InitWith({[getItemKey |-> "given", getItemSize |-> "given"]}, {<<1, 2>>},
             ColsColumns, ColsGaps, ColsColumnWidths)

NextCols ==
    \/ \E w \in ColsWidths : onMounted(w)
    \/ \E w \in ColsWidths : resizeObserver(w)
    \/ \E c \in ColsColumns : setColumns(c)
    \/ \E g \in ColsGaps : setGap(g)
    \/ \E w \in ColsColumnWidths : setColumnWidth(w)
    \/ flushJobs

SpecCols == InitCols /\ [][NextCols]_vars

-----------------------------------------------------------------------------
(* Specification of the triggers: the container resized, the item list      *)
(* replaced, columns, gap and column width changed, heights reported        *)

TriggerLists == {<<1>>, <<1, 2>>, <<2, 1>>}
TriggerColumns == {AutoColumns, FixedColumns(2)}
TriggerColumnWidths == {250, 400}

InitTriggers ==
    InitWith({[getItemKey |-> "given", getItemSize |-> "given"]}, {<<1, 2>>},
             TriggerColumns, LayoutGaps, TriggerColumnWidths)

NextTriggers ==
    \/ \E w \in LayoutWidths : onMounted(w)
    \/ \E w \in LayoutWidths : resizeObserver(w)
    \/ \E l \in TriggerLists : setItems(l)
    \/ \E c \in TriggerColumns : setColumns(c)
    \/ \E g \in LayoutGaps : setGap(g)
    \/ \E w \in TriggerColumnWidths : setColumnWidth(w)
    \/ flushJobs
    \/ \E k \in Keys, h \in Heights : updateItemHeight(k, h)

SpecTriggers == InitTriggers /\ [][NextTriggers]_vars

-----------------------------------------------------------------------------
(* Specification of the measuring cycle: width, configuration and item list *)
(* fixed once mounted, every element of a fixed height, the item observers  *)
(* re-created by every render and reporting again                           *)

\* The lists whose heights the cache of the model can hold.
MeasuredLists == { l \in ItemLists : Len(l) <= MaxCache }

InitMeasure == InitWith(Options, MeasuredLists, LayoutColumns, LayoutGaps, {250})

NextMeasure ==
    \/ \E w \in LayoutWidths : onMounted(w)
    \/ flushJobs
    \/ \E i \in DOMAIN items : itemObserver(i)

SpecMeasure == InitMeasure /\ [][NextMeasure]_vars

-----------------------------------------------------------------------------
(* Properties *)

\* The last handler ran the packer: positions is the layout it computed from
\* the refs as they are now.
Computed == recalcs > 0

\* Accumulated height of column c before the item at place i (1-based) of the
\* layout p is placed, from the items placed before it.
HeightBefore(p, i, c, gapValue) ==
    LET earlier == {j \in 1..(i - 1) : p[j].column = c}
    IN  IF earlier = {} THEN Num(0)
        ELSE LET last == CHOOSE j \in earlier : \A k \in earlier : k <= j
             IN  Plus(Plus(p[last].y, p[last].height), Num(gapValue))

\* C1: in every computed layout each item went to a column whose accumulated
\* height was the minimum over all columns at that moment, and to the lowest
\* such column.
C1_ShortestColumn ==
    Computed =>
        \A i \in DOMAIN positions :
            LET cols == 0..(columnCount(Refs) - 1)
                chosen == positions[i].column
                H(c) == HeightBefore(positions, i, c, gap)
            IN  /\ chosen \in cols
                /\ \A c \in cols : ~Less(H(c), H(chosen))
                /\ \A c \in cols : H(c) = H(chosen) => chosen <= c

\* The part of C1 the code satisfies: the same, for a column count >= 1.
C1_ShortestColumnFromOneColumn ==
    columnCount(Refs) >= 1 => C1_ShortestColumn

\* C2: updateItemHeight(k, h) stores h under k and runs the packer once when
\* the cache has no entry for k or another height; when the cache holds h for
\* k it runs no recomputation and leaves the cache and the positions as they
\* were, so the second of two consecutive calls with the same (k, h) does not
\* recompute.  (A step that leaves a call in lastCall is an updateItemHeight.)
C2_HeightCacheIdempotence ==
    [][ lastCall' # <<>> =>
          LET k == lastCall'[1]
              h == lastCall'[2]
              held == \E j \in 1..Len(itemHeights) : itemHeights[j] = <<k, h>>
          IN  /\ IF held
                 THEN /\ recalcs' = 0
                      /\ itemHeights' = itemHeights
                      /\ positions' = positions
                 ELSE /\ recalcs' = 1
                      /\ \E j \in 1..Len(itemHeights') : itemHeights'[j] = <<k, h>>
                      /\ \A j \in 1..Len(itemHeights') :
                            itemHeights'[j][1] = k => itemHeights'[j][2] = h
                      /\ positions' = calculatePositions(Refs')
              /\ lastCall = lastCall' => recalcs' = 0 ]_vars

\* A call that found its height in the cache, after a call that stored it.
C2_Witness ==
    /\ lastCall # <<>>
    /\ recalcs = 0
    /\ MapHas(itemHeights, lastCall[1])
    /\ MapGet(itemHeights, lastCall[1]) = lastCall[2]
    /\ Len(positions) > 0

\* C3: the height of every item of a computed layout is the cached height of
\* its key if the cache has one; else (estimatedHeight / estimatedWidth) x
\* the column width if an estimator is given and returns a size of positive
\* width and height; else the placeholder height.
C3_HeightPriority ==
    Computed =>
        \A i \in DOMAIN positions :
            LET item == items[i]
                key == IF opts.getItemKey = "default" THEN i - 1 ELSE item
                cached == {j \in 1..Len(itemHeights) : itemHeights[j][1] = key}
                size == getItemSize(item, i - 1)
                w == actualColumnWidth(Refs)
                h == positions[i].height
            IN  IF cached # {}
                THEN \A j \in cached : h = Num(itemHeights[j][2])
                ELSE IF /\ opts.getItemSize = "given"
                        /\ size # <<>>
                        /\ size[1].width > 0
                        /\ size[1].height > 0
                     THEN /\ IsFinite(h)
                          /\ h.n * size[1].width * w.d = size[1].height * w.n * h.d
                     ELSE h = Num(ssrPlaceholderHeight)

\* A layout with a cached item, an item of estimated height 750 at column
\* width 250, and an item whose malformed estimate gave the placeholder.
C3_Witness ==
    /\ Computed
    /\ opts = [getItemKey |-> "given", getItemSize |-> "given"]
    /\ items = <<3, 1, 2>>
    /\ itemHeights = << <<2, 100>> >>
    /\ Len(positions) = 3
    /\ positions[1].height = Num(ssrPlaceholderHeight)
    /\ positions[2].height = Num(750)
    /\ positions[2].width = Num(250)
    /\ positions[3].height = Num(100)

\* C4: with the caller's key extractor (distinct stable keys), every item of a
\* layout computed after the list was reordered or items were inserted has
\* the height recorded under its own key, whatever its index.
C4_ReorderSafety ==
    (Computed /\ opts.getItemKey = "given") =>
        \A i \in DOMAIN positions :
            \A j \in 1..Len(itemHeights) :
                itemHeights[j][1] = items[i] =>
                    positions[i].height = Num(itemHeights[j][2])

\* Heights were recorded for item 1, then item 2; the list now has item 2
\* before item 1 behind an inserted item 3, and the watcher has recomputed.
C4_Witness ==
    /\ Computed
    /\ lastCall = <<>>
    /\ opts.getItemKey = "given"
    /\ itemHeights = << <<1, 100>>, <<2, 300>> >>
    /\ items = <<3, 2, 1>>
    /\ Len(positions) = 3
    /\ positions[2].height = Num(300)
    /\ positions[3].height = Num(100)

\* All orders of the entries of the map m.
MapOrders(m) ==
    { [j \in 1..Len(m) |-> m[f[j]]] :
        f \in { g \in [1..Len(m) -> 1..Len(m)] :
                  \A a, b \in 1..Len(m) : a # b => g[a] # g[b] } }

\* C5: a computed layout has one position per item, in the order of the item
\* list (the layout of every prefix of the list is the prefix of the layout),
\* or is empty when the list is empty or the column count is 0; and it is
\* the same for every insertion order of the cache's entries.
C5_OrderPreservation ==
    Computed =>
        /\ IF Len(items) = 0 \/ columnCount(Refs) = 0
           THEN positions = <<>>
           ELSE /\ Len(positions) = Len(items)
                /\ \A n \in 0..Len(items) :
                      calculatePositions([Refs EXCEPT !.items = SubSeq(items, 1, n)])
                          = SubSeq(positions, 1, n)
        /\ \A m \in MapOrders(itemHeights) :
              calculatePositions([Refs EXCEPT !.itemHeights = m]) = positions

\* A layout of three items, two of them with different cached heights.
C5_Witness ==
    /\ Computed
    /\ Len(items) = 3
    /\ Len(positions) = 3
    /\ Len(itemHeights) = 2
    /\ itemHeights[1][2] # itemHeights[2][2]
    /\ positions[1].height # positions[2].height

\* C6: at container width 0 the column count is 1 whatever the columns
\* configuration; at a positive width a fixed count of 0 or less gives 1.
C6_ColumnCountBoundary ==
    /\ containerWidth = 0 => columnCount(Refs) = 1
    /\ (containerWidth > 0 /\ columns.kind = "number" /\ columns.value <= 0)
          => columnCount(Refs) = 1

\* The mounted container is 0 wide under a breakpoint table that gives 4
\* columns from 768 on and 2 below.
C6_Witness ==
    /\ isClient
    /\ containerWidth = 0
    /\ columns = BreakpointTable(Table2("default", 2, "md", 4))
    /\ columnCount(Refs) = 1

\* The thresholds C7 names.
C7_Threshold(name) ==
    CASE name = "sm" -> 640
      [] name = "md" -> 768
      [] name = "lg" -> 1024
      [] name = "xl" -> 1280
      [] name = "2xl" -> 1536

\* C7: with a breakpoint table and a positive width the column count is the
\* table's value for the largest threshold that is <= the width and is in
\* the table; with no such threshold it is the table's default, or 2.
C7_BreakpointColumns ==
    (containerWidth > 0 /\ columns.kind = "object") =>
        LET table == columns.table
            reached == { name \in DOMAIN table \ {"default"} :
                           C7_Threshold(name) <= containerWidth }
        IN  IF reached # {}
            THEN \E name \in reached :
                    /\ \A other \in reached :
                          C7_Threshold(other) <= C7_Threshold(name)
                    /\ columnCount(Refs) = table[name]
            ELSE IF "default" \in DOMAIN table
                 THEN columnCount(Refs) = table["default"]
                 ELSE columnCount(Refs) = 2

\* The table {default: 2, sm: 3, md: 4, lg: 5, xl: 6} at width 800: 4 columns.
C7_Witness ==
    /\ containerWidth = 800
    /\ columns.kind = "object"
    /\ DOMAIN columns.table = {"default", "sm", "md", "lg", "xl"}
    /\ columnCount(Refs) = 4

\* C8: for every configuration the resolved column count is at least 1 and
\* the gap the packer uses is at least 0.
C8_ConfigurationClamped ==
    /\ columnCount(Refs) >= 1
    /\ Computed =>
          \A i \in DOMAIN positions :
              \A c \in {positions[i].column} :
                  LET h == HeightBefore(positions, i, c, 0)
                  IN  IsFinite(h) /\ IsFinite(positions[i].y)
                          => ~Less(positions[i].y, h)

\* The column count alone: at least 1 for every configuration.
C8_ColumnCountAtLeastOne == columnCount(Refs) >= 1

\* n columns of the minimum width with their gaps fit in the container.
C9_Fit(n) == n * columnWidth + (n - 1) * gap <= containerWidth

\* C9: in auto mode with positive width W, gap g >= 0 and minimum column
\* width c > 0 the column count is max(1, floor((W + g) / (c + g))): the
\* largest N >= 1 such that N columns fit, or 1 when not even one fits.
C9_AutoColumns ==
    (/\ columns = AutoColumns
     /\ containerWidth > 0
     /\ gap >= 0
     /\ columnWidth > 0) =>
        LET N == columnCount(Refs)
            q == (containerWidth + gap) \div (columnWidth + gap)
        IN  /\ N = IF q > 1 THEN q ELSE 1
            /\ N >= 1
            /\ ~C9_Fit(N + 1)
            /\ C9_Fit(N) \/ (N = 1 /\ \A n \in 1..N : ~C9_Fit(n))

\* Width 1000, gap 16, minimum column width 250: 3 columns.
C9_Witness ==
    /\ columns = AutoColumns
    /\ containerWidth = 1000
    /\ gap = 16
    /\ columnWidth = 250
    /\ columnCount(Refs) = 3

\* C10: in every computed layout the first item of a column has y = 0, every
\* later one has y = the previous item of its column's y + height + gap, and
\* every item has x = column x (columnWidth + gap) and width = columnWidth.
C10_ColumnStacking ==
    Computed =>
        \A i \in DOMAIN positions :
            LET w == actualColumnWidth(Refs)
                p == positions[i]
            IN  /\ p.width = w
                /\ p.x = Times(Num(p.column), Plus(w, Num(gap)))
                /\ p.y = HeightBefore(positions, i, p.column, gap)

\* The part of C10 the code satisfies: the same, for a column count >= 1.
C10_ColumnStackingFromOneColumn ==
    columnCount(Refs) >= 1 => C10_ColumnStacking

\* C11 as stated: every trigger runs the packer synchronously, so in every
\* state positions is the packer's output for the current width,
\* configuration, item list and cache: its length is the item list's, every
\* column index is below the current column count.
C11_SynchronousTriggers ==
    /\ positions = calculatePositions(Refs)
    /\ Len(positions) = Len(items)
    /\ \A i \in DOMAIN positions :
          columnCount(Refs) >= 1 => positions[i].column < columnCount(Refs)

\* C11: positions is the packer's output for the current width,
\* configuration, item list and cache in every state where no watcher job is
\* queued, and in every state left by a handler that ran the packer itself
\* (onMounted, updateItemHeight with a new height, the run of the queued
\* jobs).  A change of the container width, the item list, the columns, the
\* gap or the column width only queues the watcher's job: until the job has
\* run, positions is the layout of the state before the change.
C11_FreshOnceJobsRan ==
    (pending = {} \/ Computed) => positions = calculatePositions(Refs)

\* The queued job has run after the item list was replaced, on a mounted
\* component with a measured height.
C11_Witness ==
    /\ isClient
    /\ pending = {}
    /\ lastCall = <<>>
    /\ recalcs = 1
    /\ items = <<2, 1>>
    /\ itemHeights # <<>>
    /\ Len(positions) = 2

\* The places of the list r.items whose element's actual height the cache
\* r.itemHeights does not hold.
Unrecorded(r) ==
    { i \in DOMAIN r.items :
        LET itemKey == getItemKey(r, r.items[i], i - 1)
        IN  ~ ( /\ MapHas(r.itemHeights, itemKey)
                /\ MapGet(r.itemHeights, itemKey) = contentRectHeight(itemKey) ) }

\* C12: with the width, the configuration, the item list and every element's
\* height fixed, a report of an item observer either records a height that was
\* not recorded (one recomputation, one item fewer left to record) or finds it
\* recorded and changes neither the cache nor the positions; so every run of
\* the cycle has at most as many recomputations as items, and none once every
\* height is recorded.
C12_NoFeedbackLoop ==
    /\ [][ lastCall' # <<>> =>
             IF recalcs' > 0
             THEN /\ Unrecorded(Refs') \subseteq Unrecorded(Refs)
                  /\ Unrecorded(Refs') # Unrecorded(Refs)
             ELSE /\ itemHeights' = itemHeights
                  /\ positions' = positions ]_vars
    /\ [][ Unrecorded(Refs) = {} /\ lastCall' # <<>> => recalcs' = 0 ]_vars

\* Every height of a list of two or more items is recorded, and a further
\* report found its height in the cache.
C12_Witness ==
    /\ isClient
    /\ Len(items) >= 2
    /\ Unrecorded(Refs) = {}
    /\ lastCall # <<>>
    /\ recalcs = 0

====
